---- MODULE Spec2Model ----
(***************************************************************************)
(* State-machine model of the chunking / streaming / resume pipeline of    *)
(* src/App.tsx (second component, lines 608-1309) and of the stream        *)
(* generator of src/services/geminiService.ts.                             *)
(*                                                                         *)
(* React state and refs are the variables.  Every event handler and every  *)
(* continuation of the async function processFile after an await is one    *)
(* action: the code between two awaits runs without interleaving (single   *)
(* threaded event loop), so it is composed sequentially out of operators   *)
(* on a record w holding the whole program state.                          *)
(*                                                                         *)
(* Left out: wall-clock fields (startTime, estimatedTimeRemaining), the    *)
(* display-only currentOriginal / isMinimized / autoScroll, and the        *)
(* `original` half of a preview entry.                                     *)
(***************************************************************************)
EXTENDS Integers, Sequences, FiniteSets, TLC

\* ---------------------------------------------------------------- bounds
MaxFrags == 1          \* fragments one stream yields before it must close or fail
MaxLoops == 2          \* processFile invocations in flight at the same time
MaxBatchSize == 2      \* slider positions offered in the interleaving specification
MaxStarts == 2         \* start requests accepted in one behaviour
MaxExports == 1        \* recovery files written in one behaviour

\* ------------------------------------------------------ program constants
DEFAULT_CHUNK_SIZE_KB == 32
MAX_PREVIEW_CHUNKS == 100
SliderMin == 1
SliderMax == 10

Min(a, b) == IF a < b THEN a ELSE b
Max(a, b) == IF a > b THEN a ELSE b

\* ------------------------------------------------------------------ files
\* A File as the code reads it: name (with its extension apart, for endsWith),
\* MIME type, size in bytes; numPages is what pdfjs reports for it, blank the
\* units (page numbers / byte offsets) whose extracted text trims to "".
NoFile == [name |-> "", ext |-> "", type |-> "", size |-> 0, numPages |-> 0, blank |-> {}]
PdfA == [name |-> "a.pdf", ext |-> ".pdf", type |-> "application/pdf", size |-> 900,
         numPages |-> 3, blank |-> {2}]
TxtA == [name |-> "a.txt", ext |-> ".txt", type |-> "text/plain", size |-> 70000,
         numPages |-> 0, blank |-> {32768}]
ImgA == [name |-> "a.png", ext |-> ".png", type |-> "image/png", size |-> 500,
         numPages |-> 0, blank |-> {}]
DocA == [name |-> "a.doc", ext |-> ".doc", type |-> "application/msword", size |-> 700,
         numPages |-> 0, blank |-> {}]
Files == {PdfA, TxtA, ImgA, DocA}

\* A number input's value: <<>> is the empty string, <<n>> the digits of n.
RangeInputs == {<<>>, <<0>>, <<2>>, <<3>>, <<7>>}
parseInt(s) == s[1]

\* ------------------------------------------------------------------ state
VARIABLES
    state,            \* useState<AppState>: file, stats, preview, error, resumeData
    useOCR, batchSize, streamingText, totalItems, processedItems,
    rangeStart, rangeEnd,
    abortController,  \* abortControllerRef: "null" | "live" | "aborted"
    finalChunks,      \* finalChunksRef
    isPaused,         \* isPausedRef
    isRunning,        \* isRunningRef
    loops,            \* the processFile invocations suspended at an await
    download,         \* the recovery files downloadMetadata has written
    reader,           \* the FileReader of handleMetadataUpload, until onload
    starts            \* start requests accepted so far (bounds the behaviours)

vars == <<state, useOCR, batchSize, streamingText, totalItems, processedItems,
          rangeStart, rangeEnd, abortController, finalChunks, isPaused,
          isRunning, loops, download, reader, starts>>

\* The whole program state as one value, for sequential composition.
W == [state |-> state, useOCR |-> useOCR, batchSize |-> batchSize,
      streamingText |-> streamingText, totalItems |-> totalItems,
      processedItems |-> processedItems, rangeStart |-> rangeStart,
      rangeEnd |-> rangeEnd, abortController |-> abortController,
      finalChunks |-> finalChunks, isPaused |-> isPaused,
      isRunning |-> isRunning, loops |-> loops,
      download |-> download, reader |-> reader, starts |-> starts]

Becomes(w) ==
    /\ state' = w.state
    /\ useOCR' = w.useOCR
    /\ batchSize' = w.batchSize
    /\ streamingText' = w.streamingText
    /\ totalItems' = w.totalItems
    /\ processedItems' = w.processedItems
    /\ rangeStart' = w.rangeStart
    /\ rangeEnd' = w.rangeEnd
    /\ abortController' = w.abortController
    /\ finalChunks' = w.finalChunks
    /\ isPaused' = w.isPaused
    /\ isRunning' = w.isRunning
    /\ loops' = w.loops
    /\ download' = w.download
    /\ reader' = w.reader
    /\ starts' = w.starts

\* A free slot of loops.
NoLoop == [pc |-> "none", kind |-> "none", file |-> NoFile, batchSize |-> 0,
           useOCR |-> FALSE, rangeStart |-> <<>>, rangeEnd |-> <<>>,
           processedItems |-> 0, end |-> 0, currentPage |-> 0,
           currentBatchSize |-> 0, i |-> 0, offset |-> 0,
           currentBatchOffset |-> 0, batchInputs |-> <<>>, batchResult |-> <<>>,
           yielded |-> 0, cancelled |-> FALSE]

NoBlob == <<>>

W0 == [state |-> [file |-> NoFile,
                  stats |-> [totalBytes |-> 0, processedBytes |-> 0,
                             status |-> "idle", chunksProcessed |-> 0],
                  preview |-> <<>>, error |-> "null", resumeData |-> NoBlob],
       useOCR |-> FALSE, batchSize |-> 1, streamingText |-> <<>>,
       totalItems |-> 0, processedItems |-> 0,
       rangeStart |-> <<>>, rangeEnd |-> <<>>,
       abortController |-> "null", finalChunks |-> <<>>,
       isPaused |-> FALSE, isRunning |-> FALSE,
       loops |-> [s \in 1..MaxLoops |-> NoLoop],
       download |-> <<>>, reader |-> NoBlob, starts |-> 0]

\* The state is w.
Is(w) ==
    /\ state = w.state
    /\ useOCR = w.useOCR
    /\ batchSize = w.batchSize
    /\ streamingText = w.streamingText
    /\ totalItems = w.totalItems
    /\ processedItems = w.processedItems
    /\ rangeStart = w.rangeStart
    /\ rangeEnd = w.rangeEnd
    /\ abortController = w.abortController
    /\ finalChunks = w.finalChunks
    /\ isPaused = w.isPaused
    /\ isRunning = w.isRunning
    /\ loops = w.loops
    /\ download = w.download
    /\ reader = w.reader
    /\ starts = w.starts

Init == Is(W0)

\* ------------------------------------------------------ session handlers
\* A loop is cancelled once the controller made at its start is aborted or
\* pause is requested; the loop itself only reads the two refs.
cancelAll(loops_) ==
    [s \in DOMAIN loops_ |->
        IF loops_[s].pc = "none" THEN loops_[s] ELSE [loops_[s] EXCEPT !.cancelled = TRUE]]

\* a reset that leaves the accumulated output and the pause flag alone
resetSessionKeepsOutput(w) ==
    [w EXCEPT !.abortController = IF @ = "null" THEN "null" ELSE "aborted",
              !.loops = cancelAll(@),
              !.isRunning = FALSE,
              !.streamingText = <<>>,
              !.processedItems = 0,
              !.totalItems = 0,
              !.state.preview = <<>>,
              !.state.stats.processedBytes = 0,
              !.state.stats.chunksProcessed = 0,
              !.state.stats.status = "idle"]

resetSession(w) ==
    [w EXCEPT !.abortController = IF @ = "null" THEN "null" ELSE "aborted",
              !.loops = cancelAll(@),
              !.isRunning = FALSE,
              !.isPaused = FALSE,
              !.finalChunks = <<>>,
              !.streamingText = <<>>,
              !.processedItems = 0,
              !.totalItems = 0,
              !.state.preview = <<>>,
              !.state.stats.processedBytes = 0,
              !.state.stats.chunksProcessed = 0,
              !.state.stats.status = "idle"]

stopConversion(w) == resetSession(w)

pauseConversion(w) ==
    [w EXCEPT !.isPaused = TRUE, !.state.stats.status = "paused", !.loops = cancelAll(@)]

isPdf(file) == file.type = "application/pdf" \/ file.ext = ".pdf"
isTxt(file) == file.type = "text/plain" \/ file.ext = ".txt"
isImg(file) == file.type \in {"image/png", "image/jpeg"}

\* a handler that resets the session before it looks at the kind of the file
handleFileChangeResetFirst(w, file) ==
    LET w1 == resetSession(w) IN
    IF ~isPdf(file) /\ ~isTxt(file) /\ ~isImg(file)
    THEN [w1 EXCEPT !.state.error = "Supported formats"]
    ELSE LET w2 == [w1 EXCEPT !.state.file = file,
                              !.state.stats.totalBytes = file.size,
                              !.state.stats.status = "idle",
                              !.state.error = "null"]
         IN IF isPdf(file) THEN [w2 EXCEPT !.rangeStart = <<1>>] ELSE w2

handleFileChange(w, file) ==
    IF ~isPdf(file) /\ ~isTxt(file) /\ ~isImg(file)
    THEN [w EXCEPT !.state.error = "Supported formats"]
    ELSE LET w1 == resetSession(w)
             w2 == [w1 EXCEPT !.state.file = file,
                              !.state.stats.totalBytes = file.size,
                              !.state.stats.status = "idle",
                              !.state.error = "null"]
         IN IF isPdf(file) THEN [w2 EXCEPT !.rangeStart = <<1>>] ELSE w2

\* ------------------------------------------------------- text and streams
\* Strings are sequences of tokens.  A unit handed to the dispatcher is
\* [unit, img]; the k-th fragment of the response to batchInputs is
\* [inputs, k]; a committed segment is batchResult + nl line feeds.
TextInput(u) == [unit |-> u, img |-> FALSE]
ImageInput(u) == [unit |-> u, img |-> TRUE]
Chunk(inputs, k) == [inputs |-> inputs, k |-> k]
Segment(text, nl) == [text |-> text, nl |-> nl]

aborted(w) == w.abortController = "aborted"

RECURSIVE lastOf(_, _)
lastOf(s, n) == IF Len(s) <= n THEN s ELSE lastOf(Tail(s), n)

\* floor((num / den) * total) in exact arithmetic (the code computes it in
\* doubles, which can land one below when num / den is inexact); the product
\* is not formed when total = den, to stay within TLC's 32-bit integers.
mulDivFloor(num, den, total) == IF total = den THEN num ELSE (num * total) \div den

updateProgress(w, num, den, converted) ==
    [w EXCEPT !.state.stats.processedBytes = mulDivFloor(num, den, w.state.stats.totalBytes),
              !.state.stats.chunksProcessed = @ + 1,
              !.state.preview = lastOf(Append(@, converted), MAX_PREVIEW_CHUNKS)]

\* ----------------------------------------------------- processFile, exits
\* lines 973-980 and the finally block
exitLoop(w, s) ==
    LET w1 == IF ~aborted(w) /\ ~w.isPaused
              THEN [w EXCEPT !.state.stats.status = "completed",
                             !.streamingText = <<>>]
              ELSE w
    IN [w1 EXCEPT !.isRunning = FALSE, !.loops[s] = NoLoop]

\* a catch block with no finally block after it
catchErrorWithoutFinally(w, s) ==
    [w EXCEPT !.state.error = "Stream Terminated",
              !.state.stats.status = "error",
              !.streamingText = <<>>,
              !.loops[s] = NoLoop]

\* the catch block and the finally block
catchError(w, s) ==
    [w EXCEPT !.state.error = "Stream Terminated",
              !.state.stats.status = "error",
              !.streamingText = <<>>,
              !.isRunning = FALSE,
              !.loops[s] = NoLoop]

\* ------------------------------------------------- processFile, PDF branch
remainingPages(currentPage, end) == end - currentPage + 1
currentBatchSizeUnclipped(size, remaining) == size

currentBatchSize(size, remaining) == Min(size, remaining)

\* while (currentPage <= end) { if (aborted || paused) break; ... first await
pdfLoopHead(w, s) ==
    LET l == w.loops[s] IN
    IF l.currentPage <= l.end /\ ~(aborted(w) \/ w.isPaused)
    THEN [w EXCEPT !.loops[s].pc = "extract",
                   !.loops[s].currentBatchSize =
                       currentBatchSize(l.batchSize, remainingPages(l.currentPage, l.end)),
                   !.loops[s].i = 0,
                   !.loops[s].batchInputs = <<>>]
    ELSE exitLoop(w, s)

pdfRangeStart(l) == IF l.rangeStart # <<>> THEN Max(1, parseInt(l.rangeStart)) ELSE 1
pdfRangeEnd(l) ==
    IF l.rangeEnd # <<>> THEN Min(l.file.numPages, parseInt(l.rangeEnd)) ELSE l.file.numPages
\* a first page that is the page of the cursor
pdfFirstPageAtCursor(l) == Max(pdfRangeStart(l), l.processedItems)

\* a first page that does not look at the cursor
pdfFirstPageOfRange(l) == pdfRangeStart(l)

pdfFirstPage(l) == Max(pdfRangeStart(l), l.processedItems + 1)

\* lines 866-875: the document is open
pdfLoaded(w, s) ==
    LET l == w.loops[s]
        w1 == [w EXCEPT !.totalItems = pdfRangeEnd(l),
                        !.loops[s].end = pdfRangeEnd(l),
                        !.loops[s].currentPage = pdfFirstPage(l)]
    IN pdfLoopHead(w1, s)

pdfCommit(w, s) ==
    LET l == w.loops[s]
        nextProcessed == Min(l.currentPage + l.currentBatchSize - 1, l.end)
        w1 == [w EXCEPT !.finalChunks = Append(@, Segment(l.batchResult, 2))]
        w2 == updateProgress(w1, nextProcessed, l.end, l.batchResult)
    IN [w2 EXCEPT !.loops[s].currentPage = @ + l.currentBatchSize,
                  !.processedItems = nextProcessed]

\* lines 912-918, then back to the loop condition
pdfAfterStream(w, s) ==
    pdfLoopHead(IF ~w.isPaused /\ ~aborted(w) THEN pdfCommit(w, s) ELSE w, s)

\* lines 919-922: a batch with no input
pdfSkip(w, s) ==
    LET l == w.loops[s] IN
    [w EXCEPT !.loops[s].currentPage = @ + l.currentBatchSize,
              !.processedItems = l.currentPage + l.currentBatchSize - 1]

pdfPageIsBlank(l, pageNum) == pageNum \in l.file.blank

\* lines 885-904: the extraction of page currentPage + i has finished
pdfUnitExtracted(w, s) ==
    LET l == w.loops[s]
        pageNum == l.currentPage + l.i
        inputs == IF l.useOCR THEN Append(l.batchInputs, ImageInput(pageNum))
                  ELSE IF ~pdfPageIsBlank(l, pageNum)
                       THEN Append(l.batchInputs, TextInput(pageNum))
                       ELSE l.batchInputs
    IN IF l.i + 1 < l.currentBatchSize
       THEN [w EXCEPT !.loops[s].batchInputs = inputs, !.loops[s].i = @ + 1]
       ELSE IF Len(inputs) > 0
            THEN [w EXCEPT !.streamingText = <<>>,
                           !.loops[s].batchInputs = inputs,
                           !.loops[s].i = l.i + 1,
                           !.loops[s].batchResult = <<>>,
                           !.loops[s].yielded = 0,
                           !.loops[s].pc = "stream"]
            ELSE pdfLoopHead(pdfSkip(w, s), s)

\* ------------------------------------------------ processFile, text branch
chunkSize == DEFAULT_CHUNK_SIZE_KB * 1024

txtBeginBatch(l) ==
    [l EXCEPT !.pc = "extract", !.i = 0, !.batchInputs = <<>>,
              !.currentBatchOffset = l.offset]

\* a loop condition that lets a batch begin at the very end of the file
txtLoopHeadInclusive(w, s) ==
    LET l == w.loops[s] IN
    IF l.offset <= l.file.size /\ ~(aborted(w) \/ w.isPaused)
    THEN [w EXCEPT !.loops[s] = txtBeginBatch(l)]
    ELSE exitLoop(w, s)

\* while (offset < totalSize) { if (aborted || paused) break; ... first await
txtLoopHead(w, s) ==
    LET l == w.loops[s] IN
    IF l.offset < l.file.size /\ ~(aborted(w) \/ w.isPaused)
    THEN [w EXCEPT !.loops[s] = txtBeginBatch(l)]
    ELSE exitLoop(w, s)

\* a commit that leaves the cursor to a later step
txtCommitCursorLater(w, s) ==
    LET l == w.loops[s]
        w1 == [w EXCEPT !.finalChunks = Append(@, Segment(l.batchResult, 1))]
        w2 == updateProgress(w1, Min(l.currentBatchOffset, l.file.size), l.file.size,
                             l.batchResult)
    IN [w2 EXCEPT !.loops[s].offset = l.currentBatchOffset]

txtCommit(w, s) ==
    LET l == w.loops[s]
        w1 == [w EXCEPT !.finalChunks = Append(@, Segment(l.batchResult, 1))]
        w2 == updateProgress(w1, Min(l.currentBatchOffset, l.file.size), l.file.size,
                             l.batchResult)
    IN [w2 EXCEPT !.loops[s].offset = l.currentBatchOffset,
                  !.processedItems = l.currentBatchOffset]

txtAfterStream(w, s) ==
    txtLoopHead(IF ~w.isPaused /\ ~aborted(w) THEN txtCommit(w, s) ELSE w, s)

\* lines 966-969
txtSkip(w, s) ==
    LET l == w.loops[s] IN
    [w EXCEPT !.loops[s].offset = l.currentBatchOffset,
              !.processedItems = l.currentBatchOffset]

txtChunkIsBlank(l, off) == off \in l.file.blank

\* an extraction that pushes every chunk, blank or not
txtUnitExtractedPushesBlank(w, s) ==
    LET l == w.loops[s]
        inputs == Append(l.batchInputs, TextInput(l.currentBatchOffset))
        nextOffset == l.currentBatchOffset + chunkSize
        w1 == [w EXCEPT !.loops[s].batchInputs = inputs,
                        !.loops[s].currentBatchOffset = nextOffset,
                        !.loops[s].i = l.i + 1]
    IN IF l.i + 1 < l.batchSize /\ ~(nextOffset >= l.file.size)
       THEN w1
       ELSE [w1 EXCEPT !.streamingText = <<>>,
                       !.loops[s].batchResult = <<>>,
                       !.loops[s].yielded = 0,
                       !.loops[s].pc = "stream"]

\* lines 939-952: chunk.text() of the chunk at currentBatchOffset has resolved
txtUnitExtracted(w, s) ==
    LET l == w.loops[s]
        inputs == IF ~txtChunkIsBlank(l, l.currentBatchOffset)
                  THEN Append(l.batchInputs, TextInput(l.currentBatchOffset))
                  ELSE l.batchInputs
        nextOffset == l.currentBatchOffset + chunkSize
        w1 == [w EXCEPT !.loops[s].batchInputs = inputs,
                        !.loops[s].currentBatchOffset = nextOffset,
                        !.loops[s].i = l.i + 1]
    IN IF l.i + 1 < l.batchSize /\ ~(nextOffset >= l.file.size)
       THEN w1
       ELSE IF Len(inputs) > 0
            THEN [w1 EXCEPT !.streamingText = <<>>,
                            !.loops[s].batchResult = <<>>,
                            !.loops[s].yielded = 0,
                            !.loops[s].pc = "stream"]
            ELSE txtLoopHead(txtSkip(w1, s), s)

\* ----------------------------------------------- processFile, image branch
\* lines 852-855: the data URL is read, the one dispatch starts
imgLoaded(w, s) ==
    [w EXCEPT !.loops[s].batchInputs = <<ImageInput(0)>>,
              !.loops[s].batchResult = <<>>,
              !.loops[s].yielded = 0,
              !.loops[s].pc = "stream"]

\* lines 847-852: base64Promise is resolved by reader.onload alone; when the
\* read fails nothing settles it and the loop stays at its await
readFailed(w, s) == [w EXCEPT !.loops[s].pc = "hung"]

\* lines 860-864
imgAfterStream(w, s) ==
    LET l == w.loops[s]
        w1 == IF ~w.isPaused /\ ~aborted(w)
              THEN updateProgress([w EXCEPT !.finalChunks = <<Segment(l.batchResult, 0)>>,
                                            !.processedItems = 1],
                                  1, 1, l.batchResult)
              ELSE w
    IN exitLoop(w1, s)

\* ------------------------------------------------------ processFile, entry
isPdfName(file) == file.ext \in {".pdf", ".PDF"}
FreeSlot(w) ==
    CHOOSE s \in 1..MaxLoops :
        /\ w.loops[s].pc = "none"
        /\ \A t \in 1..(s - 1) : w.loops[t].pc # "none"

\* lines 830-846, 926-933: past the guard, up to the first await
startRun(w) ==
    LET s == FreeSlot(w)
        file == w.state.file
        l == [NoLoop EXCEPT !.pc = "load", !.file = file,
                  !.batchSize = w.batchSize, !.useOCR = w.useOCR,
                  !.rangeStart = w.rangeStart, !.rangeEnd = w.rangeEnd,
                  !.processedItems = w.processedItems]
        w1 == [w EXCEPT !.isRunning = TRUE,
                        !.isPaused = FALSE,
                        !.abortController = "live",
                        !.state.stats.status = "processing",
                        !.state.error = "null",
                        !.starts = @ + 1]
    IN IF isImg(file)
       THEN [w1 EXCEPT !.totalItems = 1, !.loops[s] = [l EXCEPT !.kind = "img"]]
       ELSE IF isPdfName(file)
       THEN [w1 EXCEPT !.loops[s] = [l EXCEPT !.kind = "pdf"]]
       ELSE txtLoopHead([w1 EXCEPT !.totalItems = file.size,
                                   !.loops[s] = [l EXCEPT !.kind = "txt",
                                                          !.offset = w.processedItems]],
                        s)

processFileUnguarded(w) == IF w.state.file = NoFile THEN w ELSE startRun(w)

\* line 828: geminiRef.current is set by the mount effect before any click
processFile(w) == IF w.state.file = NoFile \/ w.isRunning THEN w ELSE startRun(w)

\* ------------------------------------------------- continuations by event
loaded(w, s) ==
    IF w.loops[s].kind = "img" THEN imgLoaded(w, s) ELSE pdfLoaded(w, s)

unitExtracted(w, s) ==
    IF w.loops[s].kind = "pdf" THEN pdfUnitExtracted(w, s) ELSE txtUnitExtracted(w, s)

afterStream(w, s) ==
    CASE w.loops[s].kind = "pdf" -> pdfAfterStream(w, s)
      [] w.loops[s].kind = "txt" -> txtAfterStream(w, s)
      [] OTHER -> imgAfterStream(w, s)

\* for await (const chunk of convertStream(...)) { if (aborted || paused) break; ... }
fragment(w, s) ==
    LET l == w.loops[s]
        chunk == Chunk(l.batchInputs, l.yielded + 1)
    IN IF aborted(w) \/ w.isPaused
       THEN afterStream(w, s)
       ELSE [w EXCEPT !.streamingText = Append(@, chunk),
                      !.loops[s].batchResult = Append(@, chunk),
                      !.loops[s].yielded = @ + 1]

streamClosed(w, s) == afterStream(w, s)

\* ------------------------------------------------------ recovery snapshot
\* JSON values are tagged; an object literal is the sequence of its
\* <<key, value>> properties in source order.
Undefined == [t |-> "undefined"]
JNumber(n) == [t |-> "number", n |-> n]
JString(str) == [t |-> "string", s |-> str]
JBoolean(b) == [t |-> "boolean", b |-> b]
JArray(a) == [t |-> "array", a |-> a]

hasValue(p) == p[2] # Undefined
\* JSON.stringify of an object: a property whose value is undefined is left out
JSONstringify(obj) == SelectSeq(obj, hasValue)
\* JSON.parse of such a text: the object that maps each key to its value
JSONparse(text) == [k \in {text[i][1] : i \in DOMAIN text} |->
                       text[CHOOSE i \in DOMAIN text : text[i][1] = k][2]]
prop(obj, key) == IF key \in DOMAIN obj THEN obj[key] ELSE Undefined
truthy(v) ==
    CASE v.t = "undefined" -> FALSE
      [] v.t = "number" -> v.n # 0
      [] v.t = "boolean" -> v.b
      [] v.t = "string" -> v.s # <<>>
      [] OTHER -> TRUE
\* Number.prototype.toString, as the value of a number input
toString(v) == <<v.n>>

\* a snapshot whose lastProcessedIndex counts committed batches, not units
metadataOfBatchCount(w) ==
    << <<"fileName", JString(w.state.file.name)>>,
       <<"fileSize", JNumber(w.state.file.size)>>,
       <<"lastProcessedIndex", JNumber(Len(w.finalChunks))>>,
       <<"accumulatedContent",
         JArray([i \in DOMAIN w.finalChunks |-> JString(w.finalChunks[i])])>>,
       <<"useOCR", JBoolean(w.useOCR)>>,
       <<"totalItems", JNumber(w.totalItems)>>,
       <<"rangeStart", Undefined>>,
       <<"rangeEnd", Undefined>> >>

\* a snapshot that also takes the text streamed so far
metadataOfWithLive(w) ==
    << <<"fileName", JString(w.state.file.name)>>,
       <<"fileSize", JNumber(w.state.file.size)>>,
       <<"lastProcessedIndex", JNumber(w.processedItems)>>,
       <<"accumulatedContent",
         JArray([i \in 1..(Len(w.finalChunks) + 1) |->
                    IF i <= Len(w.finalChunks) THEN JString(w.finalChunks[i])
                    ELSE JString(Segment(w.streamingText, 0))])>>,
       <<"useOCR", JBoolean(w.useOCR)>>,
       <<"totalItems", JNumber(w.totalItems)>>,
       <<"rangeStart", Undefined>>,
       <<"rangeEnd", Undefined>> >>

\* const metadata: ResumeMetadata = { ... }, lines 759-768
metadataOf(w) ==
    << <<"fileName", JString(w.state.file.name)>>,
       <<"fileSize", JNumber(w.state.file.size)>>,
       <<"lastProcessedIndex", JNumber(w.processedItems)>>,
       <<"accumulatedContent",
         JArray([i \in DOMAIN w.finalChunks |-> JString(w.finalChunks[i])])>>,
       <<"useOCR", JBoolean(w.useOCR)>>,
       <<"totalItems", JNumber(w.totalItems)>>,
       <<"rangeStart",
         IF w.rangeStart # <<>> THEN JNumber(parseInt(w.rangeStart)) ELSE Undefined>>,
       <<"rangeEnd",
         IF w.rangeEnd # <<>> THEN JNumber(parseInt(w.rangeEnd)) ELSE Undefined>> >>

downloadMetadata(w) ==
    IF w.state.file = NoFile THEN w
    ELSE [w EXCEPT !.download = Append(@, JSONstringify(metadataOf(w)))]

\* reader.readAsText(file): the text arrives with onload
handleMetadataUpload(w, text) == [w EXCEPT !.reader = text]

\* A text parses when it is the text of an object: JSON has no undefined, so
\* a text holding an undefined property stands for one that JSON.parse rejects.
parses(text) == \A i \in DOMAIN text : hasValue(text[i])
\* the values the setters receive; a value of the wrong type is kept apart
\* from every string[] (as the one-element <<v>>) and every number (as -1)
stringsOf(v) == IF v.t = "array" THEN [i \in DOMAIN v.a |-> v.a[i].s] ELSE <<v>>
numberOf(v) == IF v.t = "number" THEN v.n ELSE -1

\* reader.onload, lines 732-753
readerOnload(w) ==
    IF ~parses(w.reader)
    THEN [w EXCEPT !.reader = NoBlob, !.state.error = "Failed to parse metadata file."]
    ELSE
    LET metadata == JSONparse(w.reader)
        w1 == [w EXCEPT !.reader = NoBlob,
                        !.finalChunks = stringsOf(prop(metadata, "accumulatedContent")),
                        !.processedItems = numberOf(prop(metadata, "lastProcessedIndex")),
                        !.totalItems = numberOf(prop(metadata, "totalItems")),
                        !.useOCR = truthy(prop(metadata, "useOCR"))]
        w2 == IF truthy(prop(metadata, "rangeStart"))
              THEN [w1 EXCEPT !.rangeStart = toString(prop(metadata, "rangeStart"))]
              ELSE w1
        w3 == IF truthy(prop(metadata, "rangeEnd"))
              THEN [w2 EXCEPT !.rangeEnd = toString(prop(metadata, "rangeEnd"))]
              ELSE w2
    IN [w3 EXCEPT !.state.resumeData = metadata,
                  !.state.stats.status = "paused"]

\* ---------------------------------------------------------------- actions
Slots == 1..MaxLoops

ProcessFile ==
    /\ state.stats.status # "processing"
    /\ \/ isRunning
       \/ state.file = NoFile
       \/ starts < MaxStarts /\ \E s \in Slots : loops[s].pc = "none"
    /\ Becomes(processFile(W))

PauseConversion ==
    /\ state.stats.status = "processing"
    /\ Becomes(pauseConversion(W))

StopConversion == \E w \in {stopConversion(W)} : Becomes(w)

\* The files the picker offers: any file first, afterwards the loaded
\* document again or an unsupported one (one document per behaviour).
Offered == IF state.file = NoFile THEN Files ELSE {state.file, DocA}

HandleFileChange ==
    /\ state.stats.status # "processing"
    /\ \E file \in Offered : Becomes(handleFileChange(W, file))

SetBatchSize ==
    /\ state.stats.status # "processing"
    /\ \E b \in SliderMin..Min(SliderMax, MaxBatchSize) : Becomes([W EXCEPT !.batchSize = b])

SetUseOCR ==
    /\ state.stats.status # "processing"
    /\ Becomes([W EXCEPT !.useOCR = ~useOCR])

SetRangeStart ==
    /\ state.stats.status # "processing"
    /\ state.file.ext = ".pdf"
    /\ \E v \in RangeInputs : Becomes([W EXCEPT !.rangeStart = v])

SetRangeEnd ==
    /\ state.stats.status # "processing"
    /\ state.file.ext = ".pdf"
    /\ \E v \in RangeInputs : Becomes([W EXCEPT !.rangeEnd = v])

Loaded ==
    \E s \in Slots : loops[s].pc = "load" /\ Becomes(loaded(W, s))

UnitExtracted ==
    \E s \in Slots : loops[s].pc = "extract" /\ Becomes(unitExtracted(W, s))

Fragment ==
    \E s \in Slots :
        /\ loops[s].pc = "stream"
        /\ loops[s].yielded < MaxFrags
        /\ Becomes(fragment(W, s))

StreamClosed ==
    \E s \in Slots : loops[s].pc = "stream" /\ Becomes(streamClosed(W, s))

\* getDocument, a page render, chunk.text() or the stream rejects
Throws ==
    \E s \in Slots :
        /\ loops[s].pc \in {"extract", "stream"} \/ (loops[s].pc = "load" /\ loops[s].kind = "pdf")
        /\ Becomes(catchError(W, s))

\* the FileReader of the image branch reports an error
ReadFails ==
    \E s \in Slots :
        /\ loops[s].pc = "load"
        /\ loops[s].kind = "img"
        /\ Becomes(readFailed(W, s))

Next ==
    \/ ProcessFile
    \/ PauseConversion
    \/ StopConversion
    \/ HandleFileChange
    \/ SetBatchSize
    \/ SetUseOCR
    \/ Loaded
    \/ UnitExtracted
    \/ Fragment
    \/ StreamClosed
    \/ Throws
    \/ ReadFails

Spec == Init /\ [][Next]_vars

\* ------------------------------------------------------ snapshot actions
DownloadMetadata ==
    /\ Len(download) < MaxExports
    /\ Becomes(downloadMetadata(W))

\* one FileReader at a time
HandleMetadataUpload ==
    /\ reader = NoBlob
    /\ \E i \in DOMAIN download : Becomes(handleMetadataUpload(W, download[i]))

ReaderOnload ==
    /\ reader # NoBlob
    /\ Becomes(readerOnload(W))

\* the first document of the session is chosen
ChooseFile ==
    /\ state.file = NoFile
    /\ \E file \in Files : Becomes(handleFileChange(W, file))

NextResume ==
    \/ ChooseFile
    \/ SetUseOCR
    \/ ProcessFile
    \/ PauseConversion
    \/ Loaded
    \/ UnitExtracted
    \/ Fragment
    \/ StreamClosed
    \/ DownloadMetadata
    \/ HandleMetadataUpload
    \/ ReaderOnload

SpecResume == Init /\ [][NextResume]_vars

\* ------------------------------------------------------ uninterrupted runs
\* A document is chosen and the slider set; then only start requests and the
\* loop's own events happen, and every stream is drained to its end.
MaxUnits == 10
PdfOf(T) == [name |-> "t.pdf", ext |-> ".pdf", type |-> "application/pdf",
             size |-> 100 * T, numPages |-> T, blank |-> {}]
Txt100k == [name |-> "s.txt", ext |-> ".txt", type |-> "text/plain", size |-> 102400,
            numPages |-> 0, blank |-> {}]
RunFiles == {PdfOf(T) : T \in 1..MaxUnits} \cup {Txt100k, TxtA}

InitRun ==
    \E file \in RunFiles, b \in SliderMin..SliderMax :
        Is([handleFileChange(W0, file) EXCEPT !.batchSize = b])

StreamDrained ==
    \E s \in Slots :
        /\ loops[s].pc = "stream"
        /\ loops[s].yielded = MaxFrags
        /\ Becomes(streamClosed(W, s))

NextRun ==
    \/ ProcessFile
    \/ Loaded
    \/ UnitExtracted
    \/ Fragment
    \/ StreamDrained

SpecRun == InitRun /\ [][NextRun]_vars

\* ================================================================ claims
Active(s) == loops[s].pc # "none"
status == state.stats.status

\* The units a committed segment was dispatched for, read off its first fragment.
unitsOf(segment) ==
    IF segment.text = <<>> THEN <<>>
    ELSE [i \in DOMAIN segment.text[1].inputs |-> segment.text[1].inputs[i].unit]

RECURSIVE flatten(_)
flatten(ss) == IF ss = <<>> THEN <<>> ELSE Head(ss) \o flatten(Tail(ss))

unitsOfInputs(inputs) == [i \in DOMAIN inputs |-> inputs[i].unit]
committedUnits == flatten([i \in DOMAIN finalChunks |-> unitsOf(finalChunks[i])])

\* C1: at most one processing loop (a processFile invocation past its guard
\* and not yet through its finally block) is active at any moment.
C1_AtMostOneLoop == Cardinality({s \in Slots : Active(s)}) <= 1

\* C2: a start request made while isRunningRef is set changes nothing: pause
\* flag, abort controller, status, error, cursor, accumulated output and the
\* loops in flight (no new dispatch) are as before.
C2_StartWhileRunningIsNoOp ==
    isRunning =>
        LET w == processFile(W) IN
            /\ w.isPaused = isPaused
            /\ w.abortController = abortController
            /\ w.state.stats.status = status
            /\ w.state.error = state.error
            /\ w.processedItems = processedItems
            /\ w.finalChunks = finalChunks
            /\ w.loops = loops
            /\ w = W

\* a start request can be made (the button is shown) while a loop is marked running
C2_Witness ==
    /\ isRunning
    /\ state.file # NoFile
    /\ status = "paused"
    /\ \E s \in Slots : loops[s].pc = "stream"

\* C3: once a stop has left status idle, cursor 0 and no accumulated output,
\* no event of a loop still in flight (load, extraction, fragment, stream
\* close, error) changes any of the three.
LoopEvent == Loaded \/ UnitExtracted \/ Fragment \/ StreamClosed \/ Throws
AsStopLeavesIt == status = "idle" /\ processedItems = 0 /\ finalChunks = <<>>
C3_StopStays == [][(AsStopLeavesIt /\ LoopEvent) => AsStopLeavesIt']_vars

\* C4: for T pages and batch size B, both in 1..10, the batch ranges of an
\* uninterrupted run from cursor 0 have 1..B units, end at or before T, each
\* start right after the cursor, and the committed units are 1..cursor in
\* increasing order, each once; a completed run has covered 1..T.
isPagedRun == state.file.ext = ".pdf"
C4_BatchRangesPartition ==
    isPagedRun =>
        /\ \A s \in Slots :
              loops[s].pc \in {"extract", "stream"} =>
                  /\ loops[s].currentBatchSize >= 1
                  /\ loops[s].currentBatchSize <= batchSize
                  /\ loops[s].currentPage + loops[s].currentBatchSize - 1 <= state.file.numPages
                  /\ loops[s].currentPage = processedItems + 1
        /\ committedUnits = [i \in 1..processedItems |-> i]
        /\ \A i \in DOMAIN finalChunks :
              Len(unitsOf(finalChunks[i])) \in 1..batchSize
        /\ status = "completed" => processedItems = state.file.numPages

C4_Witness ==
    /\ isPagedRun
    /\ state.file.numPages = 10
    /\ batchSize = 3
    /\ status = "completed"
    /\ Len(finalChunks) = 4

\* C5: a snapshot exported in any progress state and imported into a fresh
\* pipeline gives back the cursor, the accumulated output, the total unit
\* count and the OCR flag of the exporting state.
C5_ResumeRoundTrip ==
    state.file # NoFile =>
        LET written == downloadMetadata(W).download
            text == written[Len(written)]
            fresh == readerOnload(handleMetadataUpload(W0, text))
        IN /\ fresh.processedItems = processedItems
           /\ fresh.finalChunks = finalChunks
           /\ fresh.totalItems = totalItems
           /\ fresh.useOCR = useOCR

C5_Witness ==
    /\ state.file # NoFile
    /\ Len(finalChunks) >= 2
    /\ processedItems > 0
    /\ useOCR

\* C6: a unit whose extracted text is blank is never dispatched and never in
\* the accumulated output, and the step that skips a batch of only blank
\* units advances the cursor by exactly one unit per skipped unit (one page,
\* or chunkSize bytes), for every batch size, paged or plain text.
textInputs(inputs) == {inputs[i].unit : i \in {j \in DOMAIN inputs : ~inputs[j].img}}
dispatchedText(segment) ==
    UNION {textInputs(segment.text[k].inputs) : k \in DOMAIN segment.text}
NoBlankInOutput ==
    /\ \A i \in DOMAIN finalChunks :
          dispatchedText(finalChunks[i]) \cap state.file.blank = {}
    /\ \A s \in Slots : textInputs(loops[s].batchInputs) \cap loops[s].file.blank = {}
\* the extraction that loop s awaits is the last of a batch with no input
skipsBatch(s) ==
    LET l == loops[s] IN
    /\ l.pc = "extract"
    /\ l.batchInputs = <<>>
    /\ IF l.kind = "pdf"
       THEN /\ l.i + 1 = l.currentBatchSize
            /\ ~l.useOCR
            /\ pdfPageIsBlank(l, l.currentPage + l.i)
       ELSE /\ ~(l.i + 1 < l.batchSize /\ l.currentBatchOffset + chunkSize < l.file.size)
            /\ txtChunkIsBlank(l, l.currentBatchOffset)
skippedAmount(s) ==
    IF loops[s].kind = "pdf" THEN loops[s].currentBatchSize
    ELSE (loops[s].i + 1) * chunkSize
C6_IdempotentSkip ==
    /\ []NoBlankInOutput
    /\ [][\A s \in Slots :
            (skipsBatch(s) /\ Becomes(unitExtracted(W, s)))
                => processedItems' = processedItems + skippedAmount(s)]_vars

\* C7: a batch interrupted by pause while it streams is, on resume, dispatched
\* again for the same unit range, nothing of the interrupted attempt is kept,
\* and the batch is then committed once, the cursor ending on its last unit.
MidStream(s) ==
    /\ loops[s].pc = "stream"
    /\ loops[s].kind \in {"pdf", "txt"}
    /\ status = "processing"
    /\ ~isPaused
    /\ ~aborted(W)
\* pause, then the next fragment arrives and the loop leaves
interrupted(s) == fragment(pauseConversion(W), s)
\* the resume request, up to the first extraction of the resumed loop
resumed(s) ==
    LET w2 == interrupted(s)
        w3 == processFile(w2)
    IN IF loops[s].kind = "pdf" THEN loaded(w3, FreeSlot(w2)) ELSE w3
\* the extractions of loop s one after the other, up to its next dispatch or exit
RECURSIVE extractAll(_, _)
extractAll(w, s) ==
    IF w.loops[s].pc = "extract" THEN extractAll(unitExtracted(w, s), s) ELSE w
sameRange(a, b) ==
    IF a.kind = "pdf"
    THEN a.currentPage = b.currentPage /\ a.currentBatchSize = b.currentBatchSize
    ELSE a.offset = b.offset /\ a.batchSize = b.batchSize
C7_AbortThenResume ==
    \A s \in Slots :
        MidStream(s) =>
            LET l == loops[s]
                w2 == interrupted(s)
                s2 == FreeSlot(w2)
                w4 == resumed(s)
                w5 == extractAll(w4, s2)
                w6 == streamClosed(w5, s2)
            IN /\ w2.loops[s] = NoLoop
               /\ w2.processedItems = processedItems
               /\ w2.finalChunks = finalChunks
               /\ w4.loops[s2].pc = "extract"
               /\ sameRange(w4.loops[s2], l)
               /\ w5.loops[s2].pc = "stream"
               /\ w5.loops[s2].batchInputs = l.batchInputs
               /\ Len(w6.finalChunks) = Len(finalChunks) + 1
               /\ w6.processedItems =
                     IF l.kind = "pdf" THEN l.currentPage + l.currentBatchSize - 1
                     ELSE l.currentBatchOffset

\* C8: between a start and the next stop or file replacement, no step lowers
\* the cursor or shortens the accumulated output.
SessionReset == StopConversion \/ HandleFileChange
C8_Monotone ==
    [][~SessionReset =>
          /\ processedItems' >= processedItems
          /\ Len(finalChunks') >= Len(finalChunks)]_vars

\* C9: processedBytes never exceeds totalBytes and the cursor never exceeds
\* the total unit count.
C9_ProcessedWithinTotal ==
    /\ state.stats.processedBytes <= state.stats.totalBytes
    /\ processedItems <= totalItems

\* C10: Scenario A, 102400 bytes of plain text with batch size 1: batch k is
\* the chunk at offset (k - 1) * 32768, the cursor after k commits is the k-th
\* of 32768, 65536, 98304, 102400, and the completed run has made 4 commits.
ScenarioA == state.file = Txt100k /\ batchSize = 1
C10_ScenarioA ==
    ScenarioA =>
        /\ Len(finalChunks) <= 4
        /\ \A k \in DOMAIN finalChunks :
              unitsOf(finalChunks[k]) = <<(k - 1) * chunkSize>>
        /\ processedItems = Min(Len(finalChunks) * chunkSize, Txt100k.size)
        /\ status = "completed" => Len(finalChunks) = 4

\* ------------------------------------------------------ runs over a page range
\* A paged document is chosen, the slider set and the two range boxes filled
\* in; then only start requests and the loop's own events happen.
InitRange ==
    \E b \in SliderMin..Min(SliderMax, MaxBatchSize), rs \in RangeInputs, re \in RangeInputs :
        Is([handleFileChange(W0, PdfOf(MaxUnits)) EXCEPT !.batchSize = b,
                                                          !.rangeStart = rs,
                                                          !.rangeEnd = re])

SpecRange == InitRange /\ [][NextRun]_vars

\* C11: Scenario B, 10 pages, range 3..7, batch size 2: the batches are
\* pages 3-4, 5-6 and 7, the total item count is 7 once the document is open,
\* the cursor is 2 while the run has committed nothing, then 4, 6, 7, and the
\* completed run has made 3 commits.
ScenarioB ==
    /\ state.file.numPages = 10
    /\ rangeStart = <<3>>
    /\ rangeEnd = <<7>>
    /\ batchSize = 2
C11_ScenarioB ==
    ScenarioB =>
        /\ Len(finalChunks) <= 3
        /\ \A k \in DOMAIN finalChunks :
              unitsOf(finalChunks[k]) = IF k < 3 THEN <<2 * k + 1, 2 * k + 2>> ELSE <<7>>
        /\ (\E s \in Slots : loops[s].pc \in {"extract", "stream"}) => totalItems = 7
        /\ status = "processing" => processedItems = Min(2 + 2 * Len(finalChunks), 7)
        /\ status = "completed" => Len(finalChunks) = 3 /\ processedItems = 7 /\ totalItems = 7

\* Scenario B apart from where the cursor starts
C11_ScenarioBFromFirstCommit ==
    ScenarioB =>
        /\ Len(finalChunks) <= 3
        /\ \A k \in DOMAIN finalChunks :
              unitsOf(finalChunks[k]) = IF k < 3 THEN <<2 * k + 1, 2 * k + 2>> ELSE <<7>>
        /\ (\E s \in Slots : loops[s].pc \in {"extract", "stream"}) => totalItems = 7
        /\ (status = "processing" /\ finalChunks # <<>>)
              => processedItems = Min(2 + 2 * Len(finalChunks), 7)
        /\ status = "completed" => Len(finalChunks) = 3 /\ processedItems = 7 /\ totalItems = 7

\* C12: when the extraction or the stream of a batch fails, the status is
\* error, cursor and accumulated output are as before the batch and its
\* fragments are dropped from the display; the next start extracts the same
\* range again and dispatches the same inputs, and when that stream closes the
\* batch is committed once and the loop stands where an unfailed run would.
Failing(s) ==
    /\ loops[s].pc \in {"extract", "stream"}
    /\ loops[s].kind \in {"pdf", "txt"}
    /\ status = "processing"
    /\ ~isPaused
    /\ ~aborted(W)
\* the retry request, up to the first extraction of the new loop
retried(s) ==
    LET w2 == catchError(W, s)
        w3 == processFile(w2)
    IN IF loops[s].kind = "pdf" THEN loaded(w3, FreeSlot(w2)) ELSE w3
position(l) ==
    [pc |-> l.pc, currentPage |-> l.currentPage, currentBatchSize |-> l.currentBatchSize,
     offset |-> l.offset, currentBatchOffset |-> l.currentBatchOffset,
     batchInputs |-> l.batchInputs]
C12_ErrorThenRetry ==
    \A s \in Slots :
        Failing(s) =>
            LET l == loops[s]
                w2 == catchError(W, s)
                s2 == FreeSlot(w2)
                unfailed == extractAll(W, s)
                again == extractAll(retried(s), s2)
            IN /\ w2.state.stats.status = "error"
               /\ w2.processedItems = processedItems
               /\ w2.finalChunks = finalChunks
               /\ w2.streamingText = <<>>
               /\ w2.loops[s] = NoLoop
               /\ sameRange(retried(s).loops[s2], l)
               /\ position(again.loops[s2]) = position(unfailed.loops[s])
               /\ again.processedItems = unfailed.processedItems
               /\ again.finalChunks = unfailed.finalChunks
               /\ again.loops[s2].pc = "stream" =>
                     LET done == streamClosed(again, s2)
                         clean == streamClosed([unfailed EXCEPT !.loops[s].batchResult = <<>>], s)
                     IN /\ Len(done.finalChunks) = Len(finalChunks) + 1
                        /\ done.finalChunks = clean.finalChunks
                        /\ done.processedItems = clean.processedItems
                        /\ position(done.loops[s2]) = position(clean.loops[s])

\* a batch fails after an earlier one was committed, and batches remain
C12_Witness ==
    \E s \in Slots :
        /\ Failing(s)
        /\ loops[s].pc = "stream"
        /\ loops[s].yielded > 0
        /\ Len(finalChunks) = 1
        /\ loops[s].kind = "pdf"
        /\ loops[s].currentPage + loops[s].currentBatchSize - 1 < loops[s].end

\* C13: importing a recovery file that does not parse, or that parses to an
\* object without (or with a wrongly typed) lastProcessedIndex,
\* accumulatedContent, totalItems or useOCR, reports the parse error and
\* leaves cursor, accumulated output, total item count, OCR flag and status
\* as they were.
NotJSON == << <<"fileName", Undefined>> >>
OnlyName == << <<"fileName", JString("a.pdf")>> >>
NoCursor ==
    << <<"fileName", JString("a.pdf")>>,
       <<"accumulatedContent", JArray(<<>>)>>,
       <<"useOCR", JBoolean(TRUE)>>,
       <<"totalItems", JNumber(3)>> >>
CursorAsString ==
    << <<"fileName", JString("a.pdf")>>,
       <<"lastProcessedIndex", JString("2")>>,
       <<"accumulatedContent", JArray(<<>>)>>,
       <<"useOCR", JBoolean(TRUE)>>,
       <<"totalItems", JNumber(3)>> >>
Malformed == {NotJSON, OnlyName, NoCursor, CursorAsString}
rejects(text) ==
    LET w == readerOnload(handleMetadataUpload(W, text)) IN
    /\ w.state.error = "Failed to parse metadata file."
    /\ w.processedItems = processedItems
    /\ w.finalChunks = finalChunks
    /\ w.totalItems = totalItems
    /\ w.useOCR = useOCR
    /\ w.state.stats.status = status
C13_MalformedImportRejected == \A text \in Malformed : rejects(text)

\* the part of C13 that is about a text that does not parse
C13_UnparseableImportRejected == rejects(NotJSON)

\* C14: a step appends to the accumulated output only when it is the close
\* of the stream of a loop that has seen neither an abort nor a pause request
\* since it started, and then it appends one segment and keeps the earlier
\* ones; a pause request changes neither the accumulated output nor the cursor.
closes(s) == loops[s].pc = "stream" /\ Becomes(streamClosed(W, s))
stepOf(s) ==
    \/ loops[s].pc = "load" /\ Becomes(loaded(W, s))
    \/ loops[s].pc = "extract" /\ Becomes(unitExtracted(W, s))
    \/ loops[s].pc = "stream" /\ Becomes(fragment(W, s))
    \/ closes(s)
    \/ Active(s) /\ Becomes(catchError(W, s))
C14_CommitOnlyClean ==
    /\ [][\A s \in Slots :
            (stepOf(s) /\ finalChunks' # finalChunks)
                => /\ closes(s)
                   /\ ~loops[s].cancelled
                   /\ loops[s].kind = "img" \/ SubSeq(finalChunks', 1, Len(finalChunks)) = finalChunks
                   /\ Len(finalChunks') = IF loops[s].kind = "img" THEN 1 ELSE Len(finalChunks) + 1]_vars
    /\ [][PauseConversion =>
            finalChunks' = finalChunks /\ processedItems' = processedItems]_vars

\* C15: every step either keeps the status or changes it along one of
\* idle->processing, processing->paused, processing->completed,
\* processing->error, paused->processing, paused->idle, error->processing,
\* error->idle.
Edges ==
    {<<"idle", "processing">>, <<"processing", "paused">>, <<"processing", "completed">>,
     <<"processing", "error">>, <<"paused", "processing">>, <<"paused", "idle">>,
     <<"error", "processing">>, <<"error", "idle">>}
C15_StatusEdges == [][status' # status => <<status, status'>> \in Edges]_vars

\* the edges that only a loop's own events take
C15_LoopEdges ==
    [][(LoopEvent /\ status' # status) =>
          <<status, status'>> \in {<<"processing", "completed">>, <<"processing", "error">>}]_vars

\* C16: a step that makes the status completed leaves the cursor equal to the
\* total item count, the pause flag clear and the abort controller not aborted.
C16_CompletedAtTotal ==
    [][(status' = "completed" /\ status # "completed") =>
          /\ processedItems' = totalItems'
          /\ ~isPaused'
          /\ abortController' # "aborted"]_vars

\* C17: while a pause request stands (status paused, pause flag set), every
\* event of a loop in flight leaves the status paused, and the arrival of the
\* next fragment or the close of the stream ends the loop.
PauseStands == isPaused /\ status = "paused"
C17_PausedLoopWindsDown ==
    [][\A s \in Slots :
          (PauseStands /\ stepOf(s)) =>
              /\ status' = "paused"
              /\ loops[s].pc = "stream" => loops'[s] = NoLoop]_vars

\* the same, for the events other than a rejected await
C17_PausedLoopWindsDownUnlessThrown ==
    [][\A s \in Slots :
          (PauseStands /\ stepOf(s) /\ ~Becomes(catchError(W, s))) =>
              /\ status' = "paused"
              /\ loops[s].pc = "stream" => loops'[s] = NoLoop]_vars

\* C18: cursor and accumulated output agree: every unit of the document in
\* the active range up to the cursor is in exactly one committed batch, or in
\* none and blank; no unit beyond the cursor is in a committed batch.  (A unit
\* is a page number, a chunk offset, or 0 for an image; segments are read by
\* the units their text was produced from, so a segment without text says
\* nothing and such states are left aside.)
fileUnits(file) ==
    IF file.ext = ".pdf" THEN 1..file.numPages
    ELSE IF isImg(file) THEN {0}
    ELSE {k * chunkSize : k \in 0..((file.size - 1) \div chunkSize)}
upToCursor(u) ==
    IF state.file.ext = ".pdf"
    THEN u >= pdfRangeStart([rangeStart |-> rangeStart]) /\ u <= processedItems
    ELSE u < processedItems
timesCommitted(u) == Cardinality({i \in DOMAIN committedUnits : committedUnits[i] = u})
C18_CursorMatchesOutput ==
    (state.file # NoFile /\ \A i \in DOMAIN finalChunks : finalChunks[i].text # <<>>) =>
        \A u \in fileUnits(state.file) :
            IF upToCursor(u)
            THEN timesCommitted(u) = 1 \/ (timesCommitted(u) = 0 /\ u \in state.file.blank)
            ELSE timesCommitted(u) = 0

\* C19: the units of the committed batches, read in the order of the
\* accumulated output, are strictly increasing (so the batches are disjoint
\* and in order), and a step other than a stop or a file replacement keeps
\* the segments it finds, in place, and at most appends to them.
InOrder ==
    \A i, j \in DOMAIN committedUnits : i < j => committedUnits[i] < committedUnits[j]
Kept ==
    /\ Len(finalChunks') >= Len(finalChunks)
    /\ SubSeq(finalChunks', 1, Len(finalChunks)) = finalChunks
C19_OrderedDisjointBatches ==
    /\ []InOrder
    /\ [][~SessionReset => Kept]_vars

\* C20: choosing a file that is neither a PDF, a text file nor an image sets
\* the error message and nothing else: file, cursor, accumulated output,
\* preview, totals, status, the refs and the loops in flight are as before.
Unsupported == {f \in Files : ~isPdf(f) /\ ~isTxt(f) /\ ~isImg(f)}
C20_UnsupportedFileRejected ==
    \A f \in Unsupported :
        LET w == handleFileChange(W, f) IN
        /\ w.state.error = "Supported formats"
        /\ w.state.file = state.file
        /\ w.processedItems = processedItems
        /\ w.finalChunks = finalChunks
        /\ w.state.preview = state.preview
        /\ w.totalItems = totalItems
        /\ w.state.stats = state.stats
        /\ w.loops = loops
        /\ w.isRunning = isRunning
        /\ w = [W EXCEPT !.state.error = "Supported formats"]

\* an unsupported file was refused while a paused session held progress
C20_Witness ==
    /\ Unsupported # {}
    /\ state.error = "Supported formats"
    /\ state.file # NoFile
    /\ status = "paused"
    /\ processedItems > 0
    /\ finalChunks # <<>>

\* C21: choosing a PDF, a text file or an image leaves cursor 0, no
\* accumulated output, no preview, processedBytes 0, total item count 0,
\* status idle, no error, the pause flag clear, the controller (if there is
\* one) aborted and every loop in flight cancelled, and the file loaded.
Supported == Files \ Unsupported
C21_FileReplacementResets ==
    \A f \in Supported :
        LET w == handleFileChange(W, f) IN
        /\ w.state.file = f
        /\ w.processedItems = 0
        /\ w.finalChunks = <<>>
        /\ w.state.preview = <<>>
        /\ w.state.stats.processedBytes = 0
        /\ w.totalItems = 0
        /\ w.state.stats.status = "idle"
        /\ w.state.error = "null"
        /\ ~w.isPaused
        /\ w.abortController # "live"
        /\ \A s \in Slots : w.loops[s].pc # "none" => w.loops[s].cancelled

\* a file can be chosen while a paused session holds progress and its loop
\* is still in flight
C21_Witness ==
    /\ status = "paused"
    /\ isPaused
    /\ processedItems > 0
    /\ finalChunks # <<>>
    /\ state.preview # <<>>
    /\ abortController = "live"
    /\ \E s \in Slots : Active(s)

\* C22: while a loop is in flight, a step that is not an event of a loop, a
\* pause request or a stop request changes neither the cursor, nor the
\* accumulated output, nor the status.
LoopInFlight == \E s \in Slots : Active(s)
C22_OnlyLoopWritesProgress ==
    [][(LoopInFlight /\ ~(LoopEvent \/ PauseConversion \/ StopConversion)) =>
          /\ processedItems' = processedItems
          /\ finalChunks' = finalChunks
          /\ status' = status]_vars

\* C23: whenever the status is error an error message is set, and every
\* failure of an extraction or of a stream (a rejected await, or a file read
\* that reports an error) leaves the status error and a message set.
failureOf(s) ==
    \/ /\ loops[s].pc \in {"extract", "stream"} \/ (loops[s].pc = "load" /\ loops[s].kind = "pdf")
       /\ Becomes(catchError(W, s))
    \/ /\ loops[s].pc = "load"
       /\ loops[s].kind = "img"
       /\ Becomes(readFailed(W, s))
C23_ErrorsReported ==
    /\ [](status = "error" => state.error # "null")
    /\ [][\A s \in Slots :
            failureOf(s) => status' = "error" /\ state.error' # "null"]_vars

\* the same for the failures that reject an await
C23_RejectionsReported ==
    /\ [](status = "error" => state.error # "null")
    /\ [][\A s \in Slots :
            (Active(s) /\ Becomes(catchError(W, s))) =>
                status' = "error" /\ state.error' # "null"]_vars

\* C24: in every state with status error a start request is accepted: the
\* invocation passes the guard, clears the message and keeps cursor and
\* accumulated output; it has read the cursor as it stands and is in flight
\* with status processing, or it found no text left beyond the cursor and
\* completed at once.  A stop request leaves status idle, cursor 0 and no
\* accumulated output.
C24_ErrorIsNoDeadEnd ==
    status = "error" =>
        LET w == processFile(W)
            s == FreeSlot(W)
            v == stopConversion(W)
        IN /\ loops[s].pc = "none"
           /\ w.starts = starts + 1
           /\ w.state.error = "null"
           /\ w.processedItems = processedItems
           /\ w.finalChunks = finalChunks
           /\ IF w.loops[s].pc # "none"
              THEN /\ w.state.stats.status = "processing"
                   /\ w.isRunning
                   /\ w.loops[s].processedItems = processedItems
                   /\ w.loops[s].kind = "txt" => w.loops[s].offset = processedItems
              ELSE /\ w.state.stats.status = "completed"
                   /\ isTxt(state.file)
                   /\ processedItems >= state.file.size
           /\ v.state.stats.status = "idle"
           /\ v.processedItems = 0
           /\ v.finalChunks = <<>>

\* a batch failed after an earlier one was committed
C24_Witness ==
    /\ status = "error"
    /\ state.error = "Stream Terminated"
    /\ processedItems > 0
    /\ finalChunks # <<>>
    /\ ~LoopInFlight

\* C25: once the pause flag is set or the controller aborted, the end of the
\* extraction a loop is waiting for is followed neither by the extraction of
\* another unit nor by a dispatch: the loop leaves.
Requested == isPaused \/ aborted(W)
C25_NoWorkAfterRequest ==
    [][\A s \in Slots :
          (Requested /\ loops[s].pc = "extract" /\ Becomes(unitExtracted(W, s)))
              => loops'[s].pc \notin {"extract", "stream"}]_vars

\* the checks that the loop does make: at the head of every batch and after
\* every fragment
C25_CheckedAtHeadAndFragment ==
    [][\A s \in Slots :
          /\ (Requested /\ loops[s].pc = "stream" /\
                 (Becomes(fragment(W, s)) \/ Becomes(streamClosed(W, s))))
                => loops'[s] = NoLoop
          /\ (Requested /\ loops[s].pc = "load" /\ loops[s].kind = "pdf" /\ Becomes(loaded(W, s)))
                => loops'[s] = NoLoop]_vars

\* C26: while the pause flag is set, a step other than a stop or a file
\* replacement changes neither the cursor nor the accumulated output.  (The
\* flag is set by the pause request and cleared by the next accepted start.)
C26_PauseFreezesProgress ==
    [][(isPaused /\ ~SessionReset) =>
          /\ processedItems' = processedItems
          /\ finalChunks' = finalChunks]_vars

\* the same for every step but the one that skips a batch of blank units
C26_PauseFreezesCommits ==
    [][(isPaused /\ ~SessionReset /\ ~\E s \in Slots : skipsBatch(s) /\ Becomes(unitExtracted(W, s))) =>
          /\ processedItems' = processedItems
          /\ finalChunks' = finalChunks]_vars

\* C27: a fragment that arrives for a loop whose run was paused or stopped
\* is appended neither to the live streaming buffer nor to the batch result
\* of that loop, and the loop does not wait for another fragment.
C27_NoFragmentAfterRequest ==
    [][\A s \in Slots :
          (loops[s].pc = "stream" /\ loops[s].cancelled /\ Becomes(fragment(W, s)))
              => /\ streamingText' = streamingText
                 /\ loops'[s].pc # "stream"
                 /\ loops'[s].batchResult # Append(loops[s].batchResult,
                                                   Chunk(loops[s].batchInputs, loops[s].yielded + 1))]_vars

\* the same, for a request that still stands in the refs the loop reads
C27_NoFragmentWhileRequestStands ==
    [][\A s \in Slots :
          (loops[s].pc = "stream" /\ Requested /\ Becomes(fragment(W, s)))
              => /\ streamingText' = streamingText
                 /\ loops'[s].pc # "stream"]_vars

\* C28: the test that neither pause nor abort is pending and the three
\* effects of a commit are one step.  A stream that ends with no request
\* pending appends its batch result to the output, counts it in the progress
\* and the preview, and sets the cursor, all in that step; one that ends with
\* a request pending does none of the three; and outside a stop or a file
\* replacement no other step touches the output, the count or the preview.
commitCursor(l) ==
    CASE l.kind = "pdf" -> Min(l.currentPage + l.currentBatchSize - 1, l.end)
      [] l.kind = "txt" -> l.currentBatchOffset
      [] OTHER -> 1

Committed(s) ==
    /\ finalChunks' # <<>>
    /\ finalChunks'[Len(finalChunks')].text = loops[s].batchResult
    /\ Len(finalChunks') = IF loops[s].kind = "img" THEN 1 ELSE Len(finalChunks) + 1
    /\ state'.stats.chunksProcessed = state.stats.chunksProcessed + 1
    /\ state'.preview = lastOf(Append(state.preview, loops[s].batchResult), MAX_PREVIEW_CHUNKS)
    /\ processedItems' = commitCursor(loops[s])

Uncommitted ==
    /\ finalChunks' = finalChunks
    /\ state'.stats.chunksProcessed = state.stats.chunksProcessed
    /\ state'.preview = state.preview

C28_CommitIsOneStep ==
    [][/\ \A s \in Slots :
              closes(s) => IF ~Requested
                           THEN Committed(s)
                           ELSE Uncommitted /\ processedItems' = processedItems
       /\ (~Uncommitted /\ ~SessionReset) => \E s \in Slots : closes(s) /\ ~Requested]_vars

\* one batch is committed and a pause arrives while the next is in flight
C28_Witness ==
    /\ state.stats.chunksProcessed = 1
    /\ Len(finalChunks) = 1
    /\ processedItems > 0
    /\ isPaused
    /\ \E s \in Slots : loops[s].pc = "stream"

\* C29: the step that dispatches a batch (a loop starts to wait for the
\* fragments of a request) leaves the live streaming buffer empty.
dispatches(s) == loops[s].pc # "stream" /\ loops'[s].pc = "stream"
C29_BufferEmptyAtDispatch ==
    [][\A s \in Slots : dispatches(s) => streamingText' = <<>>]_vars

\* the same for the batches of a PDF or text file
C29_BufferEmptyAtBatchDispatch ==
    [][\A s \in Slots :
          (dispatches(s) /\ loops'[s].kind # "img") => streamingText' = <<>>]_vars

\* --------------------------------------------------------- the preview ring
\* A paged document with more pages than the preview holds, converted page by
\* page with no interruption.
InitLong ==
    Is([handleFileChange(W0, PdfOf(MAX_PREVIEW_CHUNKS + 2)) EXCEPT !.batchSize = SliderMin])

SpecLong == InitLong /\ [][NextRun]_vars

texts(chunks) == [i \in DOMAIN chunks |-> chunks[i].text]

\* C30: the preview holds at most MAX_PREVIEW_CHUNKS entries; it is the
\* batch results of the last min(n, MAX_PREVIEW_CHUNKS) of the n commits of
\* the session, in commit order, and the accumulated output holds all n.
C30_PreviewIsTailOfOutput ==
    /\ Len(state.preview) <= MAX_PREVIEW_CHUNKS
    /\ Len(finalChunks) = state.stats.chunksProcessed
    /\ state.preview = lastOf(texts(finalChunks), MAX_PREVIEW_CHUNKS)

\* the same in a run with more commits than the preview holds (SpecLong)
C30_LongRunPreview ==
    /\ Len(state.preview) = Min(state.stats.chunksProcessed, MAX_PREVIEW_CHUNKS)
    /\ Len(finalChunks) = state.stats.chunksProcessed
    /\ \A k \in 1..Len(state.preview) :
           state.preview[k] =
               finalChunks[Len(finalChunks) - Len(state.preview) + k].text

C30_LongRunWitness ==
    /\ state.stats.chunksProcessed = MAX_PREVIEW_CHUNKS + 2
    /\ Len(state.preview) = MAX_PREVIEW_CHUNKS
    /\ status = "completed"

\* C31: a loop that waits for fragments has dispatched a non-empty list of
\* inputs, none of them a blank text unit; and the step that ends the
\* extraction of a batch whose units are all blank dispatches nothing,
\* leaves the accumulated output, the progress count and the preview as they
\* are, and sets the cursor to the last unit of that batch.
DispatchedInputs ==
    \A s \in Slots :
        /\ loops[s].pc = "stream" => loops[s].batchInputs # <<>>
        /\ textInputs(loops[s].batchInputs) \cap loops[s].file.blank = {}
skippedTo(s) ==
    IF loops[s].kind = "pdf"
    THEN loops[s].currentPage + loops[s].currentBatchSize - 1
    ELSE loops[s].currentBatchOffset + chunkSize
\* the last unit before the batch a loop is working on
resumesAfter(l) == IF l.kind = "pdf" THEN l.currentPage - 1 ELSE l.offset
C31_BlankBatchSkipped ==
    /\ []DispatchedInputs
    /\ [][\A s \in Slots :
            (skipsBatch(s) /\ Becomes(unitExtracted(W, s)))
                => /\ Uncommitted
                   /\ processedItems' = skippedTo(s)
                   /\ loops'[s].pc # "stream"
                   /\ loops'[s].pc = "extract" =>
                          /\ loops'[s].batchInputs = <<>>
                          /\ resumesAfter(loops'[s]) = skippedTo(s)]_vars

\* the first chunk of the text file is committed, the blank second one skipped
C31_Witness ==
    /\ state.file = TxtA
    /\ Len(finalChunks) = 1
    /\ processedItems = 2 * chunkSize
    /\ state.stats.chunksProcessed = 1

\* C32: a run over an image dispatches once, with the one image part, and
\* the end of that stream ends the run.  When the run was neither paused nor
\* stopped, the total is 1, the cursor is 1 and the accumulated output is the
\* one segment made of the stream's fragments; when it was paused or
\* stopped, output, progress and cursor stay as they are.
ImageCommitted(s) ==
    /\ finalChunks' = <<Segment(loops[s].batchResult, 0)>>
    /\ processedItems' = 1
    /\ totalItems' = 1
    /\ status' = "completed"
imageRun(s, interrupted_) ==
    /\ (loops[s].pc = "load" /\ Becomes(loaded(W, s)))
          => /\ loops'[s].pc = "stream"
             /\ loops'[s].batchInputs = <<ImageInput(0)>>
             /\ loops'[s].batchResult = <<>>
    /\ closes(s)
          => /\ loops'[s] = NoLoop
             /\ IF interrupted_
                THEN Uncommitted /\ processedItems' = processedItems
                ELSE ImageCommitted(s)
C32_ImageIsOneUnit ==
    [][\A s \in Slots :
          loops[s].kind = "img" => imageRun(s, loops[s].cancelled)]_vars

\* the same, with pause and stop as the loop reads them when its stream ends
C32_ImageIsOneUnitByRefs ==
    [][\A s \in Slots :
          loops[s].kind = "img" => imageRun(s, Requested)]_vars

\* ------------------------------------------------------------- termination
\* What a loop awaits is settled in the end: the read of the file ends or
\* fails, an extraction resolves or rejects, a dispatched stream closes or
\* fails.
settles(s) ==
    \/ /\ loops[s].pc = "load"
       /\ \/ Becomes(loaded(W, s))
          \/ loops[s].kind = "img" /\ Becomes(readFailed(W, s))
          \/ loops[s].kind = "pdf" /\ Becomes(catchError(W, s))
    \/ /\ loops[s].pc = "extract"
       /\ Becomes(unitExtracted(W, s)) \/ Becomes(catchError(W, s))
    \/ /\ loops[s].pc = "stream"
       /\ Becomes(streamClosed(W, s)) \/ Becomes(catchError(W, s))

\* One document is chosen; starts, pauses and stops interleave with the
\* loops' events.
NextLive ==
    \/ ChooseFile
    \/ ProcessFile
    \/ PauseConversion
    \/ StopConversion
    \/ Loaded
    \/ UnitExtracted
    \/ Fragment
    \/ StreamClosed
    \/ Throws
    \/ ReadFails

SpecLive == Init /\ [][NextLive]_vars /\ \A s \in Slots : WF_vars(settles(s))

\* C33: every processing loop that was started exits in the end.
C33_LoopExits == \A s \in Slots : Active(s) ~> ~Active(s)

\* the same for a loop as long as the read of its file has not failed
C33_LoopExitsUnlessReadFails ==
    \A s \in Slots :
        (Active(s) /\ loops[s].pc # "hung") ~> (~Active(s) \/ loops[s].pc = "hung")

\* a step of a loop that begins a new batch begins it further on, and a step
\* that ends a loop releases the running guard
C33_AdvancesAndReleases ==
    [][\A s \in Slots :
          /\ (stepOf(s) /\ loops[s].pc \in {"extract", "stream"}
                  /\ loops'[s].pc = "extract" /\ loops'[s].i = 0)
                 => resumesAfter(loops'[s]) > resumesAfter(loops[s])
          /\ (Active(s) /\ ~Active(s)') => ~isRunning']_vars

\* C34: no step of a loop that was in flight when the session was stopped
\* changes the accumulated output or the cursor, whether or not a new run has
\* been started since.
stopped(s) == loops[s].cancelled /\ ~isPaused
C34_StoppedLoopIsInert ==
    [][\A s \in Slots :
          (stopped(s) /\ stepOf(s))
              => /\ finalChunks' = finalChunks
                 /\ processedItems' = processedItems]_vars

\* the same as long as no new run has replaced the aborted controller, for
\* every step but the skip of a batch of blank units
C34_StoppedLoopIsInertUntilRestart ==
    [][\A s \in Slots :
          (stopped(s) /\ aborted(W) /\ stepOf(s)
                /\ ~(skipsBatch(s) /\ Becomes(unitExtracted(W, s))))
              => /\ finalChunks' = finalChunks
                 /\ processedItems' = processedItems]_vars

\* C35: in status paused a start request is accepted: it begins a loop at
\* the cursor with status processing, or, for a text file with nothing left
\* beyond the cursor, completes at once; this also when the paused loop has
\* not yet seen the pause flag.
resumes(w) ==
    /\ w.starts = starts + 1
    /\ w.isPaused = FALSE
    /\ w.processedItems = processedItems
    /\ w.finalChunks = finalChunks
    /\ LET s == FreeSlot(W) IN
       IF w.loops[s].pc # "none"
       THEN /\ w.state.stats.status = "processing"
            /\ w.isRunning
            /\ w.loops[s].processedItems = processedItems
            /\ w.loops[s].kind = "txt" => w.loops[s].offset = processedItems
       ELSE /\ w.state.stats.status = "completed"
            /\ isTxt(state.file)
            /\ processedItems >= state.file.size
C35_ResumeIsAccepted == status = "paused" => resumes(processFile(W))

\* the same once the paused loop has exited
C35_ResumeAfterExit == (status = "paused" /\ ~isRunning) => resumes(processFile(W))

\* C36: for a paged document or a text file with the cursor at or past the
\* end of the active range, a start (run up to the end of the document's
\* load) dispatches nothing and ends the loop with status completed; cursor,
\* accumulated output, preview and progress are as before.
AtEnd ==
    IF isPdfName(state.file)
    THEN processedItems >= pdfRangeEnd([file |-> state.file, rangeEnd |-> rangeEnd])
    ELSE processedItems >= state.file.size
startedAtEnd ==
    LET w == processFile(W)
        s == FreeSlot(W)
    IN IF w.loops[s].pc = "load" THEN loaded(w, s) ELSE w
C36_StartAtEndCompletes ==
    (/\ state.file # NoFile
     /\ ~isImg(state.file)
     /\ ~isRunning
     /\ \E s \in Slots : loops[s].pc = "none"
     /\ AtEnd)
        => LET w == startedAtEnd IN
           /\ w.starts = starts + 1
           /\ w.loops = loops
           /\ ~w.isRunning
           /\ w.state.stats.status = "completed"
           /\ w.processedItems = processedItems
           /\ w.finalChunks = finalChunks
           /\ w.state.preview = state.preview
           /\ w.state.stats.chunksProcessed = state.stats.chunksProcessed
           /\ w.state.stats.processedBytes = state.stats.processedBytes
           /\ w.streamingText = <<>>

\* a paged document was converted to its end and started once more
C36_Witness ==
    /\ isPdfName(state.file)
    /\ status = "completed"
    /\ starts = 2
    /\ AtEnd
    /\ finalChunks # <<>>
    /\ \A s \in Slots : loops[s].pc = "none"

\* C37: whatever batch size, OCR setting and range start are chosen before
\* an accepted start of a paged document or a text file, the first batch
\* begins at page max(range start, cursor + 1), or at the byte offset equal
\* to the cursor, which lies beyond the cursor's last unit; when that is
\* past the end, no batch begins.
rangeStartValue(rs) == IF rs = <<>> THEN 1 ELSE parseInt(rs)
firstBatch(b, o, rs) ==
    LET w0 == [W EXCEPT !.batchSize = b, !.useOCR = o, !.rangeStart = rs]
        w == processFile(w0)
        s == FreeSlot(W)
    IN (IF w.loops[s].pc = "load" THEN loaded(w, s) ELSE w).loops[s]
beginsAtCursor(l, rs) ==
    IF isPdfName(state.file)
    THEN LET first == Max(rangeStartValue(rs), processedItems + 1) IN
         IF first <= pdfRangeEnd([file |-> state.file, rangeEnd |-> rangeEnd])
         THEN /\ l.pc = "extract" /\ l.i = 0 /\ l.batchInputs = <<>>
              /\ l.currentPage = first
              /\ l.currentPage > processedItems
         ELSE l = NoLoop
    ELSE IF processedItems < state.file.size
         THEN /\ l.pc = "extract" /\ l.i = 0 /\ l.batchInputs = <<>>
              /\ l.offset = processedItems
              /\ l.currentBatchOffset = processedItems
         ELSE l = NoLoop
C37_FirstUnitAfterStart ==
    (/\ state.file # NoFile
     /\ ~isImg(state.file)
     /\ ~isRunning
     /\ \E s \in Slots : loops[s].pc = "none")
        => \A b \in {SliderMin, SliderMax}, o \in BOOLEAN, rs \in RangeInputs :
               beginsAtCursor(firstBatch(b, o, rs), rs)

\* a run paused after its first commit has been resumed
C37_Witness ==
    /\ starts = 2
    /\ processedItems > 0
    /\ status = "processing"
    /\ \E s \in Slots :
          /\ loops[s].pc = "extract" /\ loops[s].i = 0 /\ ~loops[s].cancelled
          /\ loops[s].processedItems = processedItems
          /\ IF loops[s].kind = "pdf" THEN loops[s].currentPage = processedItems + 1
             ELSE loops[s].offset = processedItems
    /\ \A s \in Slots : ~loops[s].cancelled

\* C38: a snapshot exported in any state, also while a batch streams, holds
\* the accumulated output and the cursor as they are, and the arrival of a
\* fragment changes nothing of what an export would write; the accumulated
\* output changes only by the commit of a whole batch result or by an import,
\* and the cursor only by a commit, a skip or an import.
exported(w) == JSONparse(JSONstringify(metadataOf(w)))
ExportIsCommittedState ==
    state.file # NoFile =>
        /\ stringsOf(exported(W)["accumulatedContent"]) = finalChunks
        /\ numberOf(exported(W)["lastProcessedIndex"]) = processedItems
        /\ \A s \in Slots :
              loops[s].pc = "stream" =>
                  \/ Requested
                  \/ /\ fragment(W, s).loops[s].batchResult # loops[s].batchResult
                     /\ exported(fragment(W, s)) = exported(W)
C38_ExportHoldsCommittedOnly ==
    /\ []ExportIsCommittedState
    /\ [][/\ download' # download =>
                download' = Append(download, JSONstringify(metadataOf(W)))
          /\ finalChunks' # finalChunks =>
                \/ ReaderOnload
                \/ \E s \in Slots : closes(s) /\ ~Requested /\ Committed(s)
          /\ processedItems' # processedItems =>
                \/ ReaderOnload
                \/ \E s \in Slots : closes(s) /\ ~Requested /\ Committed(s)
                \/ \E s \in Slots : skipsBatch(s) /\ Becomes(unitExtracted(W, s))]_vars

\* a snapshot was exported while a batch was streaming after a first commit
C38_Witness ==
    /\ download # <<>>
    /\ finalChunks # <<>>
    /\ stringsOf(JSONparse(download[1])["accumulatedContent"]) = finalChunks
    /\ \E s \in Slots : loops[s].pc = "stream" /\ loops[s].batchResult # <<>>

\* C39: the import of a snapshot that was exported for another file (another
\* fileName or fileSize than the loaded file's) leaves the cursor and the
\* accumulated output as they are.
snapshotOf(file) == JSONstringify(metadataOf(handleFileChange(W0, file)))
C39_ForeignSnapshotIgnored ==
    state.file # NoFile =>
        \A file \in Supported :
            (file.name # state.file.name \/ file.size # state.file.size) =>
                LET w == readerOnload(handleMetadataUpload(W, snapshotOf(file)))
                IN /\ w.processedItems = processedItems
                   /\ w.finalChunks = finalChunks

\* a snapshot names the file it was exported for
C39_SnapshotNamesItsFile ==
    state.file # NoFile =>
        /\ exported(W)["fileName"] = JString(state.file.name)
        /\ exported(W)["fileSize"] = JNumber(state.file.size)

\* ------------------------------------------------- runs over plain text
\* A text file of some size, with some of its chunks blank, is chosen and the
\* slider set; then only start requests and the loop's own events happen.
TextSizes == {1, 32768, 32769, 65536, 70000, 98304, 102400}
chunkStarts(size) == {k * chunkSize : k \in 0..((size - 1) \div chunkSize)}
TxtOf(size, blank) == [name |-> "t.txt", ext |-> ".txt", type |-> "text/plain",
                       size |-> size, numPages |-> 0, blank |-> blank]
InitText ==
    \E size \in TextSizes, b \in SliderMin..SliderMax :
        \E blank \in SUBSET chunkStarts(size) :
            Is([handleFileChange(W0, TxtOf(size, blank)) EXCEPT !.batchSize = b])

\* a text file has no document to load before the first chunk is read
NextText ==
    \/ ProcessFile
    \/ UnitExtracted
    \/ Fragment
    \/ StreamDrained

SpecText == InitText /\ [][NextText]_vars

\* file.slice(off, off + chunkSize): the bytes from off up to the end of the file
slice(file, off) == [from |-> off, to |-> Min(off + chunkSize, file.size)]

\* C40: in an uninterrupted run over a text file of size S the chunks read
\* are consecutive slices of chunkSize bytes starting at byte 0, none of them
\* starting at or beyond S; every chunk read so far that is not blank is in
\* exactly one batch, committed or in flight, and no blank one is; a batch
\* holds at most batchSize chunks; and the completed run has read up to S.
readUpTo ==
    IF \E s \in Slots : Active(s)
    THEN loops[CHOOSE s \in Slots : Active(s)].currentBatchOffset
    ELSE processedItems
inFlight ==
    IF \E s \in Slots : Active(s)
    THEN unitsOfInputs(loops[CHOOSE s \in Slots : Active(s)].batchInputs)
    ELSE <<>>
TextPartition ==
    LET S == state.file.size
        units == committedUnits \o inFlight
    IN /\ readUpTo % chunkSize = 0
       /\ readUpTo < S + chunkSize
       /\ \A i \in DOMAIN units : i > 1 => units[i] > units[i - 1]
       /\ {units[i] : i \in DOMAIN units} =
              {off \in chunkStarts(S) : off < readUpTo} \ state.file.blank
       /\ \A k \in DOMAIN finalChunks : Len(unitsOf(finalChunks[k])) \in 1..batchSize
       /\ Len(inFlight) <= batchSize
       /\ status = "completed" =>
              /\ readUpTo >= S
              /\ {units[i] : i \in DOMAIN units} = chunkStarts(S) \ state.file.blank
C40_TextChunksPartition ==
    /\ []TextPartition
    /\ [][\A s \in Slots :
            (loops[s].pc = "extract" /\ Becomes(unitExtracted(W, s)))
                => LET l == loops[s]
                       chunk == slice(l.file, l.currentBatchOffset)
                   IN /\ chunk.from < l.file.size
                      /\ chunk.from < chunk.to
                      /\ chunk.from = readUpTo
                      /\ chunk.to = Min(readUpTo', l.file.size)
                      /\ chunk.to - chunk.from <= chunkSize
                      /\ chunk.to - chunk.from < chunkSize => chunk.to = l.file.size]_vars

\* a file of three chunks and a remainder, its second chunk blank, converted
\* two chunks a batch
C40_Witness ==
    /\ state.file.size = 102400
    /\ state.file.blank = {chunkSize}
    /\ batchSize = 2
    /\ status = "completed"
    /\ Len(finalChunks) = 2
    /\ committedUnits = <<0, 2 * chunkSize, 3 * chunkSize>>

====
